---- MODULE Spec2Model ----
(***************************************************************************)
(* Model of the data normalization and metrics-derivation pipeline of      *)
(* pl-team-analysis: src/data/preprocessor.py (field parsers and record    *)
(* normalizer), src/metrics/{attacking,defensive,possession}.py (metrics   *)
(* engines, tactical rules), src/metrics/aggregators.py (form window,      *)
(* league table, season summary, home/away split) and the sidebar of the   *)
(* pages (team, comparison and season selection kept in the session).      *)
(*                                                                         *)
(* Conventions.                                                            *)
(*  - A table (pandas DataFrame) is a sequence of rows; a row is a record  *)
(*    whose fields are the columns (blanks and brackets dropped from the   *)
(*    column names: "Goal scored" is GoalScored, "Accurate passes_pct" is  *)
(*    AccuratePasses_pct).  Columns no metric reads (fouls, cards, duels,  *)
(*    throws, offsides, shots outside box, non-penalty xG) are left out.   *)
(*  - A raw numeric cell is [t, n]: t = "num" a number or numeric text of  *)
(*    value n, t = "text" non-numeric text, t = "null" a missing value.    *)
(*  - A raw text cell is [t, s]: t = "str" with s the tuple of its         *)
(*    characters, or t = "null".                                           *)
(*  - xG columns are counted in hundredths.                                *)
(*  - A float is an exact fraction [n, d]; d = 0 is numpy's nan/inf, what  *)
(*    a division by zero produces.  round(x, k) is round-half-even on the  *)
(*    exact fraction and yields [n, 10^k].                                 *)
(***************************************************************************)
EXTENDS Integers, Sequences, FiniteSets, TLC

\* raw:    the raw table load_all_seasons returns (one row per team per fixture)
\* canon:  the canonical table preprocess_data returned last (<<>> before the first run)
\* runs:   how many times preprocess_data has run on raw (counted up to MaxRuns)
\* err:    the exception the last preprocess_data ended with, "none" if it returned
\* op/arg: the function called last and its arguments (season, team, last_n)
\* result: what that call returned
\* session: st.session_state, the keys the pages have stored so far
VARIABLES raw, canon, runs, err, op, arg, result, session

vars == <<raw, canon, runs, err, op, arg, result, session>>

\* ---------------------------------------------------------------- bounds
\* longest raw table of the normalizer runs
MaxRows == 3
\* longest raw table of the aggregation and metrics runs
MaxMatches == 2
NumTeams == 2
MaxLastN == 3
MaxRuns == 2
\* the lengths of the two runs of fixtures a long season table is made of
ShortRun == 8
LongRun == 13

\* config.py SEASON_FILES: two configured seasons, "2023-2024" < "2024-2025"
NumSeasons == 2

\* max_selections of the pages' comparison multiselect
MaxSelections == 3

Seasons == 1..NumSeasons
Teams == 1..NumTeams
NoSeason == 0

\* ------------------------------------------------------- float arithmetic
Q(n, d) == [n |-> n, d |-> d]

RECURSIVE Gcd(_, _)
Gcd(a, b) == IF b = 0 THEN a ELSE Gcd(b, a % b)

\* the fraction n / d (d > 0) in lowest terms
Reduced(n, d) == LET g == Gcd(IF n < 0 THEN 0 - n ELSE n, d) IN Q(n \div g, d \div g)

QInt(i) == Q(i, 1)

IsNaN(q) == q.d = 0

IsZero(q) == q.d # 0 /\ q.n = 0

AddQ(a, b) == IF a.d = 0 \/ b.d = 0 THEN Q(0, 0) ELSE Reduced(a.n * b.d + b.n * a.d, a.d * b.d)

\* a - b
SubQ(a, b) == AddQ(a, Q(0 - b.n, b.d))

\* numerator / denominator of two integers, as numpy divides: x / 0 is nan or inf
DivInt(n, d) == IF d = 0 THEN Q(0, 0) ELSE IF d < 0 THEN Reduced(0 - n, 0 - d) ELSE Reduced(n, d)

\* q / i
DivQ(q, i) ==
    IF q.d = 0 \/ i = 0 THEN Q(0, 0)
    ELSE IF i < 0 THEN Reduced(0 - q.n, q.d * (0 - i)) ELSE Reduced(q.n, q.d * i)

\* q * i
MulQ(q, i) == IF q.d = 0 THEN q ELSE Reduced(q.n * i, q.d)

\* a < b, false when either is nan
LtQ(a, b) == a.d # 0 /\ b.d # 0 /\ a.n * b.d < b.n * a.d

LeQ(a, b) == a.d # 0 /\ b.d # 0 /\ a.n * b.d <= b.n * a.d

RECURSIVE Pow10(_)
Pow10(k) == IF k = 0 THEN 1 ELSE 10 * Pow10(k - 1)

\* nearest integer to n / d (d > 0), ties to the even integer
RoundHalfEven(n, d) ==
    LET fl == n \div d
        twice == 2 * (n - fl * d)
    IN  IF twice < d THEN fl
        ELSE IF twice > d THEN fl + 1
        ELSE IF fl % 2 = 0 THEN fl ELSE fl + 1

\* round(q, k): nan stays nan
Round(q, k) == IF q.d = 0 THEN Q(0, 0) ELSE Q(RoundHalfEven(q.n * Pow10(k), q.d), Pow10(k))

\* int(q): truncation toward zero (defined for finite q)
IntOf(q) == IF q.n >= 0 THEN q.n \div q.d ELSE 0 - ((0 - q.n) \div q.d)

\* ------------------------------------------------------------- raw cells
Num(n) == [t |-> "num", n |-> n]

TextNum == [t |-> "text", n |-> 0]

NullNum == [t |-> "null", n |-> 0]

Str(s) == [t |-> "str", s |-> s]

NullStr == [t |-> "null", s |-> <<>>]

\* pd.to_numeric(col, errors="coerce").fillna(0) on one cell
ToNumeric(c) == IF c.t = "num" THEN c.n ELSE 0

\* -------------------------------------------------------- field parsers
Digits == {"0", "1", "2", "3", "4", "5", "6", "7", "8", "9"}

DigitVal(c) ==
    CASE c = "0" -> 0 [] c = "1" -> 1 [] c = "2" -> 2 [] c = "3" -> 3 [] c = "4" -> 4
      [] c = "5" -> 5 [] c = "6" -> 6 [] c = "7" -> 7 [] c = "8" -> 8 [] c = "9" -> 9

\* number of leading characters of s, from position i on, that lie in set
RECURSIVE Span(_, _, _)
Span(s, i, set) == IF i <= Len(s) /\ s[i] \in set THEN 1 + Span(s, i + 1, set) ELSE 0

\* value of the digit string s[i .. i+k-1]
RECURSIVE DigitsVal(_, _, _)
DigitsVal(s, i, k) == IF k = 0 THEN 0 ELSE DigitsVal(s, i, k - 1) * 10 + DigitVal(s[i + k - 1])

\* str.strip(): leading and trailing blanks removed
Strip(s) ==
    LET lead == Span(s, 1, {" "})
        rest == SubSeq(s, lead + 1, Len(s))
        RECURSIVE Trail(_)
        Trail(j) == IF j >= 1 /\ rest[j] = " " THEN Trail(j - 1) ELSE j
    IN  SubSeq(rest, 1, Trail(Len(rest)))

\* parse_possession: leading "digits[.digits]" of the stripped text, else 0.0
parse_possession(c) ==
    IF c.t = "null" \/ c.s = <<>> THEN QInt(0)
    ELSE LET s == Strip(c.s)
             k == Span(s, 1, Digits)
             f == IF k + 1 <= Len(s) /\ s[k + 1] = "." THEN Span(s, k + 2, Digits) ELSE 0
         IN  IF k = 0 THEN QInt(0)
             ELSE IF f = 0 THEN QInt(DigitsVal(s, 1, k))
             ELSE Q(DigitsVal(s, 1, k) * Pow10(f) + DigitsVal(s, k + 2, f), Pow10(f))

\* float(text) for texts without exponent: "[+-]digits[.[digits]]", "[+-].digits",
\* "[+-]inf" and "[+-]nan"; kind "bad" is a ValueError
FloatOf(s) ==
    LET signed == Len(s) >= 1 /\ s[1] \in {"-", "+"}
        neg == Len(s) >= 1 /\ s[1] = "-"
        b == IF signed THEN 2 ELSE 1
        k == Span(s, b, Digits)
        dot == b + k <= Len(s) /\ s[b + k] = "."
        f == IF dot THEN Span(s, b + k + 1, Digits) ELSE 0
        used == b - 1 + k + (IF dot THEN 1 ELSE 0) + f
        mag == DigitsVal(s, b, k) * Pow10(f) + DigitsVal(s, b + k + 1, f)
        body == SubSeq(s, b, Len(s))
    IN  IF body = <<"i", "n", "f">> THEN [kind |-> "inf", q |-> Q(0, 0)]
        ELSE IF body = <<"n", "a", "n">> THEN [kind |-> "nan", q |-> Q(0, 0)]
        ELSE IF k + f > 0 /\ used = Len(s)
             THEN [kind |-> "fin", q |-> Q(IF neg THEN 0 - mag ELSE mag, Pow10(f))]
        ELSE [kind |-> "bad", q |-> Q(0, 0)]

\* parse_percentage_string: "N (P%)" -> (N, P/100); a bare number -> (int, 0.0);
\* else (0, 0.0).  raised names the exception that escapes, "none" if none does.
parse_percentage_string(c) ==
    LET zero == [count |-> 0, pct |-> QInt(0), raised |-> "none"]
    IN  IF c.t = "null" \/ c.s = <<>> THEN zero
        ELSE LET s == Strip(c.s)
                 k == Span(s, 1, Digits)
                 w == Span(s, k + 1, {" "})
                 open == k + w + 1
                 p == IF open <= Len(s) /\ s[open] = "(" THEN Span(s, open + 1, Digits) ELSE 0
                 matched == k > 0 /\ p > 0 /\ open + p + 2 <= Len(s)
                            /\ s[open + p + 1] = "%" /\ s[open + p + 2] = ")"
                 fl == FloatOf(s)
             IN  IF matched
                 THEN [count |-> DigitsVal(s, 1, k), pct |-> Q(DigitsVal(s, open + 1, p), 100),
                       raised |-> "none"]
                 ELSE IF fl.kind = "fin" THEN [count |-> IntOf(fl.q), pct |-> QInt(0), raised |-> "none"]
                 ELSE IF fl.kind = "inf" THEN [count |-> 0, pct |-> QInt(0), raised |-> "OverflowError"]
                 ELSE zero

\* a raw Date cell: t = "fmt" is text laid out "<Weekday>, <Month> <Day>, <Year>" with a
\* weekday name, month number m (0 when the month name is unknown), day d and year y;
\* t = "text" any other text; t = "num" a non-text value; t = "null" a missing value
DateCell(t, y, m, d) == [t |-> t, y |-> y, m |-> m, d |-> d]

NoDate == [some |-> FALSE, y |-> 0, m |-> 0, d |-> 0]

DaysInMonth(y, m) ==
    IF m \in {4, 6, 9, 11} THEN 30
    ELSE IF m = 2 THEN (IF (y % 4 = 0 /\ y % 100 # 0) \/ y % 400 = 0 THEN 29 ELSE 28)
    ELSE 31

\* parse_date: the date, or None (NoDate) for a null or a text strptime rejects
parse_date(c) ==
    IF c.t = "fmt" /\ c.m \in 1..12 /\ c.d \in 1..DaysInMonth(c.y, c.m) /\ c.y \in 1..9999
    THEN [some |-> TRUE, y |-> c.y, m |-> c.m, d |-> c.d]
    ELSE NoDate

\* parse_date raises on a value that is neither null nor text: it has no strip()
parse_date_raises(c) == c.t = "num"

\* ------------------------------------------------------ record normalizer
\* df[col] = values: the columns of add set in row r, replacing those r has
Merge(r, add) == add @@ r

percentage_columns == {"AccuratePasses", "AccurateLongBalls", "AccurateCrosses", "SuccessfulDribbles"}

numeric_cols ==
    {"GoalScored", "GoalConceded", "points", "Round", "xG", "TotalShots", "ShotsOnTarget",
     "BigChances", "BigChancesMissed", "Corners", "xGOpenPlay", "xGSetPlay", "xGOT",
     "ShotsOffTarget", "BlockedShots", "HitWoodwork", "ShotsInsideBox", "Passes", "OwnHalf",
     "OppositionHalf", "TouchesInBox", "Tackles", "Interceptions", "Blocks", "Clearances",
     "KeeperSaves"}

\* np.where(den > 0, (num / den) * mult, 0) on one row
SafeRateUnguarded(num, den, mult) == MulQ(DivInt(num, den), mult)

SafeRate(num, den, mult) == IF den > 0 THEN MulQ(DivInt(num, den), mult) ELSE QInt(0)

\* pd.cut(possession_pct, bins=[0, 45, 55, 100], labels=[Low, Medium, High]):
\* right-closed bins (0,45], (45,55], (55,100]; a value in no bin has no label
possession_category(p) ==
    IF LtQ(QInt(0), p) /\ LeQ(p, QInt(45)) THEN "Low (<45%)"
    ELSE IF LtQ(QInt(45), p) /\ LeQ(p, QInt(55)) THEN "Medium (45-55%)"
    ELSE IF LtQ(QInt(55), p) /\ LeQ(p, QInt(100)) THEN "High (>55%)"
    ELSE "NaN"

\* the three result flags of one row
ResultFlags(points) ==
    [is_win |-> IF points = 3 THEN 1 ELSE 0,
     is_draw |-> IF points = 1 THEN 1 ELSE 0,
     is_loss |-> IF points = 0 THEN 1 ELSE 0]

\* add_calculated_columns on one row (r has its numeric columns coerced)
add_calculated_columns(r) ==
    Merge(Merge(r, ResultFlags(r.points)),
      [xg_difference |-> r.GoalScored * 100 - r.xG,
       shot_conversion_pct |-> SafeRate(r.GoalScored, r.TotalShots, 100),
       shots_on_target_pct |-> SafeRate(r.ShotsOnTarget, r.TotalShots, 100),
       big_chance_conversion_pct |-> SafeRate(r.BigChances - r.BigChancesMissed, r.BigChances, 100),
       shots_inside_box_pct |-> SafeRate(r.ShotsInsideBox, r.TotalShots, 100),
       is_clean_sheet |-> IF r.GoalConceded = 0 THEN 1 ELSE 0,
       goal_difference |-> r.GoalScored - r.GoalConceded,
       defensive_actions |-> r.Tackles + r.Interceptions + r.Blocks + r.Clearances,
       opp_half_passes_pct |-> SafeRate(r.OppositionHalf, r.Passes, 100),
       xg_open_play_ratio |-> SafeRate(r.xGOpenPlay, r.xG, 1),
       xg_set_play_ratio |-> SafeRate(r.xGSetPlay, r.xG, 1),
       xg_per_shot |-> SafeRate(r.xG, r.TotalShots * 100, 1),
       woodwork_rate |-> SafeRate(r.HitWoodwork, r.TotalShots, 100),
       blocked_shot_rate |-> SafeRate(r.BlockedShots, r.TotalShots, 100),
       shots_off_target_rate |-> SafeRate(r.ShotsOffTarget, r.TotalShots, 100),
       possession_category |-> possession_category(r.possession_pct)])

\* the parsed columns of one raw row: date_parsed, possession_pct, <col>_count, <col>_pct
ParsedColumns(r) ==
    LET passes == parse_percentage_string(r.AccuratePasses)
        long_balls == parse_percentage_string(r.AccurateLongBalls)
        crosses == parse_percentage_string(r.AccurateCrosses)
        dribbles == parse_percentage_string(r.SuccessfulDribbles)
    IN  [date_parsed |-> parse_date(r.Date),
         possession_pct |-> parse_possession(r.BallPossession),
         AccuratePasses_count |-> passes.count,
         AccuratePasses_pct |-> passes.pct,
         AccurateLongBalls_count |-> long_balls.count,
         AccurateLongBalls_pct |-> long_balls.pct,
         AccurateCrosses_count |-> crosses.count,
         AccurateCrosses_pct |-> crosses.pct,
         SuccessfulDribbles_count |-> dribbles.count,
         SuccessfulDribbles_pct |-> dribbles.pct]

\* the numeric columns of one raw row, coerced
CoerceNumeric(r) == [k \in numeric_cols |-> ToNumeric(r[k])]

\* one raw row through the parsing, the coercion and the calculated columns
NormalizeRow(r) == add_calculated_columns(Merge(Merge(r, ParsedColumns(r)), CoerceNumeric(r)))

\* the sort key (season, Round, date_parsed) compared: a sorts at or before b.
\* A missing date sorts after every date (na_position="last").
DateLe(a, b) ==
    IF ~b.some THEN TRUE
    ELSE IF ~a.some THEN FALSE
    ELSE <<a.y, a.m, a.d>> = <<b.y, b.m, b.d>>
         \/ a.y < b.y \/ (a.y = b.y /\ a.m < b.m) \/ (a.y = b.y /\ a.m = b.m /\ a.d < b.d)

SortKeyLeNoRound(a, b) ==
    \/ a.season < b.season
    \/ a.season = b.season /\ DateLe(a.date_parsed, b.date_parsed)

SortKeyLe(a, b) ==
    \/ a.season < b.season
    \/ a.season = b.season /\ a.Round < b.Round
    \/ a.season = b.season /\ a.Round = b.Round /\ DateLe(a.date_parsed, b.date_parsed)

\* DataFrame.sort_values over several columns: a stable sort (lexsort) under the total
\* preorder le, given as the relation le[i][j] "row i sorts at or before row j"; rows
\* with equal keys keep their order in t; the variant is a sort that is not stable and
\* leaves rows with equal keys in the opposite order
sort_values_ties_reversed(t, le) ==
    LET n == Len(t)
        before(j, i) == IF le[j][i] /\ le[i][j] THEN j > i ELSE le[j][i]
        rank(i) == Cardinality({j \in 1..n : j # i /\ before(j, i)}) + 1
    IN  [p \in 1..n |-> t[CHOOSE i \in 1..n : rank(i) = p]]

sort_values(t, le) ==
    LET n == Len(t)
        before(j, i) == IF le[j][i] /\ le[i][j] THEN j < i ELSE le[j][i]
        rank(i) == Cardinality({j \in 1..n : j # i /\ before(j, i)}) + 1
    IN  [p \in 1..n |-> t[CHOOSE i \in 1..n : rank(i) = p]]

\* df.sort_values(["season", "Round", "date_parsed"])
SortCanonical(t) ==
    sort_values(t, [i \in 1..Len(t) |-> [j \in 1..Len(t) |-> SortKeyLe(t[i], t[j])]])

\* the exception preprocess_data ends with on table df, "none" when it returns
PreprocessRaises(df) ==
    IF \E i \in 1..Len(df) : parse_date_raises(df[i].Date) THEN "AttributeError"
    ELSE IF \E i \in 1..Len(df) : \E c \in percentage_columns :
                parse_percentage_string(df[i][c]).raised # "none" THEN "OverflowError"
    ELSE "none"

\* preprocess_data: the canonical table of raw table df
preprocess_data(df) == SortCanonical([i \in 1..Len(df) |-> NormalizeRow(df[i])])

\* what preprocess_data leaves in its argument: it works on df.copy()
InputAfterInPlace(df) ==
    [i \in 1..Len(df) |-> Merge(df[i], [k \in numeric_cols |-> Num(ToNumeric(df[i][k]))])]

InputAfter(df) == df
\* ------------------------------------------------------ table helpers
\* df[col].sum() over an integer column
RECURSIVE Sum(_, _)
Sum(df, col) == IF df = <<>> THEN 0 ELSE Sum(SubSeq(df, 1, Len(df) - 1), col) + df[Len(df)][col]

\* df[col].sum() over a float column
RECURSIVE SumQ(_, _)
SumQ(df, col) ==
    IF df = <<>> THEN QInt(0) ELSE AddQ(SumQ(SubSeq(df, 1, Len(df) - 1), col), df[Len(df)][col])

\* df[col].mean() over a float column: nan on an empty table
MeanQ(df, col) == DivQ(SumQ(df, col), Len(df))

\* df[mask]: the rows satisfying keep, in order
RECURSIVE Filter(_, _, _)
Filter(df, col, val) ==
    IF df = <<>> THEN <<>>
    ELSE LET init == Filter(SubSeq(df, 1, Len(df) - 1), col, val)
             last == df[Len(df)]
         IN  IF last[col] = val THEN Append(init, last) ELSE init

\* filter_by_season(df, season): df[df["season"] == season]
filter_by_season(df, season) == Filter(df, "season", season)

\* get_team_data(df, team): df[df["Team"] == team]
get_team_data(df, team) == Filter(df, "Team", team)

\* ------------------------------------------------------ attacking engine
\* sum / len(df), 0.0 on an empty table
PerGameUnguarded(total, n) == DivInt(total, n)

PerGame(total, n) == IF n = 0 THEN QInt(0) ELSE DivInt(total, n)

\* (part / whole) * 100, 0.0 when whole == 0
RateOfTotal(part, whole) == IF whole = 0 THEN QInt(0) ELSE MulQ(DivInt(part, whole), 100)

goals_per_game(df) == PerGame(Sum(df, "GoalScored"), Len(df))

xg_per_game(df) == PerGame(Sum(df, "xG"), Len(df) * 100)

xg_overperformance(df) == Q(Sum(df, "GoalScored") * 100 - Sum(df, "xG"), 100)

xg_overperformance_per_game(df) ==
    PerGame(Sum(df, "GoalScored") * 100 - Sum(df, "xG"), Len(df) * 100)

shot_conversion_rate(df) == RateOfTotal(Sum(df, "GoalScored"), Sum(df, "TotalShots"))

shots_on_target_rate(df) == RateOfTotal(Sum(df, "ShotsOnTarget"), Sum(df, "TotalShots"))

big_chance_conversion_rate(df) ==
    RateOfTotal(Sum(df, "BigChances") - Sum(df, "BigChancesMissed"), Sum(df, "BigChances"))

shots_inside_box_rate(df) == RateOfTotal(Sum(df, "ShotsInsideBox"), Sum(df, "TotalShots"))

get_attacking_metrics(df) ==
    [matches |-> QInt(Len(df)),
     total_goals |-> QInt(Sum(df, "GoalScored")),
     total_xg |-> Round(Q(Sum(df, "xG"), 100), 2),
     goals_per_game |-> Round(goals_per_game(df), 2),
     xg_per_game |-> Round(xg_per_game(df), 2),
     xg_overperformance |-> Round(xg_overperformance(df), 2),
     xg_overperformance_per_game |-> Round(xg_overperformance_per_game(df), 2),
     shot_conversion_pct |-> Round(shot_conversion_rate(df), 1),
     shots_on_target_pct |-> Round(shots_on_target_rate(df), 1),
     big_chance_conversion_pct |-> Round(big_chance_conversion_rate(df), 1),
     shots_per_game |-> Round(PerGame(Sum(df, "TotalShots"), Len(df)), 1),
     shots_on_target_per_game |-> Round(PerGame(Sum(df, "ShotsOnTarget"), Len(df)), 1),
     big_chances_per_game |-> Round(PerGame(Sum(df, "BigChances"), Len(df)), 2),
     xgot_per_game |-> Round(PerGame(Sum(df, "xGOT"), Len(df) * 100), 2),
     shots_inside_box_pct |-> Round(shots_inside_box_rate(df), 1),
     total_big_chances |-> QInt(Sum(df, "BigChances")),
     total_big_chances_missed |-> QInt(Sum(df, "BigChancesMissed"))]

\* ------------------------------------------------------ defensive engine
\* (df["Goal conceded"] == 0).sum(); the variant counts the matches without a goal scored
clean_sheets_scoreless(df) == Len(Filter(df, "GoalScored", 0))

clean_sheets(df) == Len(Filter(df, "GoalConceded", 0))

clean_sheet_percentage(df) ==
    IF Len(df) = 0 THEN QInt(0) ELSE MulQ(DivInt(clean_sheets(df), Len(df)), 100)

defensive_actions_per_game(df) ==
    PerGame(Sum(df, "Tackles") + Sum(df, "Interceptions") + Sum(df, "Blocks")
            + Sum(df, "Clearances"), Len(df))

get_defensive_metrics(df) ==
    [matches |-> QInt(Len(df)),
     total_goals_conceded |-> QInt(Sum(df, "GoalConceded")),
     goals_conceded_per_game |-> Round(PerGame(Sum(df, "GoalConceded"), Len(df)), 2),
     clean_sheets |-> QInt(clean_sheets(df)),
     clean_sheet_pct |-> Round(clean_sheet_percentage(df), 1),
     tackles_per_game |-> Round(PerGame(Sum(df, "Tackles"), Len(df)), 1),
     interceptions_per_game |-> Round(PerGame(Sum(df, "Interceptions"), Len(df)), 1),
     blocks_per_game |-> Round(PerGame(Sum(df, "Blocks"), Len(df)), 1),
     clearances_per_game |-> Round(PerGame(Sum(df, "Clearances"), Len(df)), 1),
     defensive_actions_per_game |-> Round(defensive_actions_per_game(df), 1),
     saves_per_game |-> Round(PerGame(Sum(df, "KeeperSaves"), Len(df)), 1),
     total_tackles |-> QInt(Sum(df, "Tackles")),
     total_interceptions |-> QInt(Sum(df, "Interceptions")),
     total_blocks |-> QInt(Sum(df, "Blocks")),
     total_clearances |-> QInt(Sum(df, "Clearances"))]

\* ----------------------------------------------------- possession engine
\* df[col].mean(), 0.0 on an empty table
MeanOrZeroUnguarded(df, col) == MeanQ(df, col)

MeanOrZero(df, col) == IF Len(df) = 0 THEN QInt(0) ELSE MeanQ(df, col)

average_possession(df) == MeanOrZero(df, "possession_pct")

pass_accuracy(df) == MulQ(MeanOrZero(df, "AccuratePasses_pct"), 100)

long_ball_accuracy(df) == MulQ(MeanOrZero(df, "AccurateLongBalls_pct"), 100)

cross_accuracy(df) == MulQ(MeanOrZero(df, "AccurateCrosses_pct"), 100)

get_possession_metrics(df) ==
    [matches |-> QInt(Len(df)),
     avg_possession |-> Round(average_possession(df), 1),
     passes_per_game |-> Round(PerGame(Sum(df, "Passes"), Len(df)), 0),
     pass_accuracy_pct |-> Round(pass_accuracy(df), 1),
     opp_half_passes_per_game |-> Round(PerGame(Sum(df, "OppositionHalf"), Len(df)), 0),
     own_half_passes_per_game |-> Round(PerGame(Sum(df, "OwnHalf"), Len(df)), 0),
     long_ball_accuracy_pct |-> Round(long_ball_accuracy(df), 1),
     cross_accuracy_pct |-> Round(cross_accuracy(df), 1),
     touches_in_box_per_game |-> Round(PerGame(Sum(df, "TouchesInBox"), Len(df)), 1),
     corners_per_game |-> Round(PerGame(Sum(df, "Corners"), Len(df)), 1),
     successful_dribbles_per_game |-> Round(PerGame(Sum(df, "SuccessfulDribbles_count"), Len(df)), 1),
     total_passes |-> QInt(Sum(df, "Passes")),
     total_corners |-> QInt(Sum(df, "Corners"))]
\* ------------------------------------------- set piece and shot quality
\* round((num / den) * mult, k) if den > 0 else 0
RateIfPositiveUnguarded(num, den, mult, k) == Round(MulQ(DivInt(num, den), mult), k)

RateIfPositive(num, den, mult, k) ==
    IF den > 0 THEN Round(MulQ(DivInt(num, den), mult), k) ELSE QInt(0)

\* a / b on floats
DivQQ(a, b) ==
    IF a.d = 0 \/ b.d = 0 \/ b.n = 0 THEN Q(0, 0)
    ELSE IF b.n < 0 THEN Reduced(0 - a.n * b.d, a.d * (0 - b.n)) ELSE Reduced(a.n * b.d, a.d * b.n)

NoMetrics == <<>>

\* m.get(key, 0): how the rules and pages read a metrics map that may be empty
Lookup(m, key) == IF key \in DOMAIN m THEN m[key] ELSE QInt(0)

get_set_piece_metrics(df) ==
    IF Len(df) = 0 THEN NoMetrics
    ELSE LET total_xg == Sum(df, "xG")
             xg_set_play == Sum(df, "xGSetPlay")
             xg_open_play == Sum(df, "xGOpenPlay")
             corners == Sum(df, "Corners")
         IN  [xg_from_set_pieces |-> Round(Q(xg_set_play, 100), 2),
              xg_from_open_play |-> Round(Q(xg_open_play, 100), 2),
              set_piece_xg_pct |-> RateIfPositive(xg_set_play, total_xg, 100, 1),
              open_play_xg_pct |-> RateIfPositive(xg_open_play, total_xg, 100, 1),
              corners_total |-> QInt(corners),
              corners_per_game |-> Round(DivInt(corners, Len(df)), 1),
              xg_per_corner |-> RateIfPositive(xg_set_play, corners * 100, 1, 3),
              set_piece_xg_per_game |-> Round(DivInt(xg_set_play, Len(df) * 100), 2),
              open_play_xg_per_game |-> Round(DivInt(xg_open_play, Len(df) * 100), 2)]

get_shot_quality_metrics(df) ==
    IF Len(df) = 0 THEN NoMetrics
    ELSE LET total_shots == Sum(df, "TotalShots")
             woodwork == Sum(df, "HitWoodwork")
         IN  [avg_xg_per_shot |-> RateIfPositive(Sum(df, "xG"), total_shots * 100, 1, 3),
              total_shots |-> QInt(total_shots),
              woodwork_total |-> QInt(woodwork),
              woodwork_rate_pct |-> RateIfPositive(woodwork, total_shots, 100, 1),
              blocked_shots_total |-> QInt(Sum(df, "BlockedShots")),
              blocked_rate_pct |-> RateIfPositive(Sum(df, "BlockedShots"), total_shots, 100, 1),
              off_target_total |-> QInt(Sum(df, "ShotsOffTarget")),
              off_target_rate_pct |-> RateIfPositive(Sum(df, "ShotsOffTarget"), total_shots, 100, 1),
              on_target_total |-> QInt(Sum(df, "ShotsOnTarget")),
              on_target_rate_pct |-> RateIfPositive(Sum(df, "ShotsOnTarget"), total_shots, 100, 1),
              goals_total |-> QInt(Sum(df, "GoalScored")),
              goal_rate_pct |-> RateIfPositive(Sum(df, "GoalScored"), total_shots, 100, 1),
              potential_woodwork_goals |-> Round(Q(woodwork * 5, 10), 1)]

\* one category of the shot outcome breakdown: its count and its share of the shots
ShotOutcome(count, total_shots) ==
    [count |-> count, pct |-> RateIfPositive(count, total_shots, 100, 1)]

\* "Saved" is the shots on target that were not goals: Shots on target.sum() - goals
get_shot_outcome_breakdown(df) ==
    IF Len(df) = 0 THEN NoMetrics
    ELSE LET total_shots == Sum(df, "TotalShots")
             goals == Sum(df, "GoalScored")
             saved == Sum(df, "ShotsOnTarget") - goals
         IN  [Goals |-> ShotOutcome(goals, total_shots),
              Saved |-> ShotOutcome(saved, total_shots),
              Blocked |-> ShotOutcome(Sum(df, "BlockedShots"), total_shots),
              OffTarget |-> ShotOutcome(Sum(df, "ShotsOffTarget"), total_shots),
              Woodwork |-> ShotOutcome(Sum(df, "HitWoodwork"), total_shots)]

\* ------------------------------------------------ possession effectiveness
\* total / len(part) if len(part) > 0 else 0
PerBucket(total, n) == IF n > 0 THEN DivInt(total, n) ELSE QInt(0)

get_possession_effectiveness(df) ==
    IF Len(df) = 0 THEN NoMetrics
    ELSE LET high_poss == SelectSeq(df, LAMBDA r : LeQ(QInt(55), r.possession_pct))
             medium_poss == SelectSeq(df, LAMBDA r : LeQ(QInt(45), r.possession_pct)
                                                     /\ LtQ(r.possession_pct, QInt(55)))
             low_poss == SelectSeq(df, LAMBDA r : LtQ(r.possession_pct, QInt(45)))
             high_poss_ppg == PerBucket(Sum(high_poss, "points"), Len(high_poss))
             medium_poss_ppg == PerBucket(Sum(medium_poss, "points"), Len(medium_poss))
             low_poss_ppg == PerBucket(Sum(low_poss, "points"), Len(low_poss))
             high_poss_win_rate == MulQ(PerBucket(Sum(high_poss, "is_win"), Len(high_poss)), 100)
             low_poss_win_rate == MulQ(PerBucket(Sum(low_poss, "is_win"), Len(low_poss)), 100)
             total_xg == Q(Sum(df, "xG"), 100)
             avg_possession == MeanQ(df, "possession_pct")
             xg_per_possession_pct ==
                 IF LtQ(QInt(0), avg_possession)
                 THEN DivQQ(total_xg, MulQ(avg_possession, Len(df))) ELSE QInt(0)
             touches_per_xg ==
                 IF total_xg.n > 0
                 THEN DivQQ(QInt(Sum(df, "TouchesInBox")), total_xg) ELSE QInt(0)
         IN  [high_possession_games |-> QInt(Len(high_poss)),
              high_possession_ppg |-> Round(high_poss_ppg, 2),
              high_possession_win_rate |-> Round(high_poss_win_rate, 1),
              medium_possession_games |-> QInt(Len(medium_poss)),
              medium_possession_ppg |-> Round(medium_poss_ppg, 2),
              low_possession_games |-> QInt(Len(low_poss)),
              low_possession_ppg |-> Round(low_poss_ppg, 2),
              low_possession_win_rate |-> Round(low_poss_win_rate, 1),
              xg_per_possession_pct |-> Round(xg_per_possession_pct, 3),
              touches_per_xg |-> Round(touches_per_xg, 1),
              better_with_possession |-> LtQ(low_poss_ppg, high_poss_ppg),
              possession_differential |-> Round(SubQ(high_poss_ppg, low_poss_ppg), 2)]

\* ------------------------------------------------------ aggregation layer
\* df.head(n), the first n rows: what a window read from the wrong end would take
head(df, n) == SubSeq(df, 1, IF Len(df) > n THEN n ELSE Len(df))

\* df.tail(n): the last n rows; all but the first -n rows when n < 0
tail(df, n) ==
    IF n = 0 THEN <<>>
    ELSE IF n > 0 THEN SubSeq(df, (IF Len(df) > n THEN Len(df) - n + 1 ELSE 1), Len(df))
    ELSE SubSeq(df, (0 - n) + 1, Len(df))

\* "max_points": last_n * 3
MaxPointsOfWindow(recent, last_n) == Len(recent) * 3

MaxPoints(recent, last_n) == last_n * 3

FormLetter(row) == IF row.is_win = 1 THEN "W" ELSE IF row.is_draw = 1 THEN "D" ELSE "L"

get_form(df, last_n) ==
    LET recent == tail(df, last_n)
        form_list == [i \in 1..Len(recent) |-> FormLetter(recent[i])]
    IN  [form_string |-> form_list,
         form_list |-> form_list,
         points |-> Sum(recent, "points"),
         max_points |-> MaxPoints(recent, last_n),
         goals_scored |-> Sum(recent, "GoalScored"),
         goals_conceded |-> Sum(recent, "GoalConceded"),
         wins |-> Sum(recent, "is_win"),
         draws |-> Sum(recent, "is_draw"),
         losses |-> Sum(recent, "is_loss")]

\* df.groupby("Team").agg(sum).reset_index(): one row per team, ascending team
GroupByTeam(df) ==
    LET teams == {df[i].Team : i \in 1..Len(df)}
        nth(p) == CHOOSE t \in teams : Cardinality({u \in teams : u < t}) = p - 1
        agg(t) == LET g == get_team_data(df, t)
                  IN  [Team |-> t,
                       Points |-> Sum(g, "points"),
                       GF |-> Sum(g, "GoalScored"),
                       GA |-> Sum(g, "GoalConceded"),
                       W |-> Sum(g, "is_win"),
                       D |-> Sum(g, "is_draw"),
                       L |-> Sum(g, "is_loss")]
    IN  [p \in 1..Cardinality(teams) |-> agg(nth(p))]

\* the standings sort key (Points, GD, GF), all descending: a sorts at or before b
StandingsLeGDAscending(a, b) ==
    \/ a.Points > b.Points
    \/ a.Points = b.Points /\ a.GD < b.GD
    \/ a.Points = b.Points /\ a.GD = b.GD /\ a.GF >= b.GF

StandingsLe(a, b) ==
    \/ a.Points > b.Points
    \/ a.Points = b.Points /\ a.GD > b.GD
    \/ a.Points = b.Points /\ a.GD = b.GD /\ a.GF >= b.GF

\* the subset calculate_league_position aggregates: `if season:` skips the filter
SeasonRowsUnfiltered(df, season) == df

SeasonRows(df, season) == IF season # NoSeason THEN filter_by_season(df, season) ELSE df

calculate_league_position(df, season) ==
    LET grouped == GroupByTeam(SeasonRows(df, season))
        derived == [i \in 1..Len(grouped) |->
                     Merge(grouped[i], [GD |-> grouped[i].GF - grouped[i].GA,
                                        P |-> grouped[i].W + grouped[i].D + grouped[i].L])]
        sorted == sort_values(derived, [i \in 1..Len(derived) |-> [j \in 1..Len(derived) |->
                                        StandingsLe(derived[i], derived[j])]])
    IN  [i \in 1..Len(sorted) |-> Merge(sorted[i], [Position |-> i])]
\* one half of the home/away split: the figures of the records of one side
SideSplit(part) ==
    [matches |-> Len(part),
     wins |-> Sum(part, "is_win"),
     draws |-> Sum(part, "is_draw"),
     losses |-> Sum(part, "is_loss"),
     points |-> Sum(part, "points"),
     points_per_game |-> IF Len(part) > 0 THEN Round(DivInt(Sum(part, "points"), Len(part)), 2)
                         ELSE QInt(0),
     goals_scored |-> Sum(part, "GoalScored"),
     goals_conceded |-> Sum(part, "GoalConceded"),
     clean_sheets |-> Sum(part, "is_clean_sheet"),
     avg_possession |-> IF Len(part) > 0 THEN Round(MeanQ(part, "possession_pct"), 1)
                        ELSE QInt(0)]

get_home_away_split(df) ==
    [home |-> SideSplit(Filter(df, "Side", "Home")),
     away |-> SideSplit(Filter(df, "Side", "Away"))]

\* ------------------------------------------------------ season selection
\* a season key that SEASON_FILES does not hold
UnknownSeason == NumSeasons + 1

\* the season a page's selectbox shows: the options are the SEASON_FILES keys, and the
\* preselected index is that of the session's season if it is an option, else 0
selectbox_season(session_season) == IF session_season \in Seasons THEN session_season ELSE 1

\* -------------------------------------------------------- season summary
\* the summary's own entries and the three engines' maps, spread in this order into one
\* dict literal: a key spread later replaces the same key written earlier
SummaryOf(df) ==
    Merge(Merge(Merge(
      [matches_played |-> QInt(Len(df)),
       wins |-> QInt(Sum(df, "is_win")),
       draws |-> QInt(Sum(df, "is_draw")),
       losses |-> QInt(Sum(df, "is_loss")),
       total_points |-> QInt(Sum(df, "points")),
       points_per_game |-> Round(DivInt(Sum(df, "points"), Len(df)), 2),
       goals_scored |-> QInt(Sum(df, "GoalScored")),
       goals_conceded |-> QInt(Sum(df, "GoalConceded")),
       goal_difference |-> QInt(Sum(df, "GoalScored") - Sum(df, "GoalConceded")),
       clean_sheets |-> QInt(Sum(df, "is_clean_sheet")),
       home_wins |-> QInt(Sum(Filter(df, "Side", "Home"), "is_win")),
       away_wins |-> QInt(Sum(Filter(df, "Side", "Away"), "is_win"))],
      get_attacking_metrics(df)), get_defensive_metrics(df)), get_possession_metrics(df))

\* the summary without its `if len(df) == 0: return {}`
get_season_summary_unguarded(df) == SummaryOf(df)

get_season_summary(df) == IF Len(df) = 0 THEN NoMetrics ELSE SummaryOf(df)

\* ------------------------------------------------------- tactical rules
\* One rule of a rule engine: fires is its trigger; safe says that every map entry the
\* finding's text subscripts (m['key']) exists, a missing one being a KeyError.
Rule(fires, safe, title, severity) ==
    [fires |-> fires, safe |-> safe, title |-> title, severity |-> severity]

\* the rules evaluated in order, each firing rule appending one finding; the call ends
\* with KeyError at the first firing rule whose finding subscripts a missing entry
RunRules(rules) ==
    IF \E i \in 1..Len(rules) : rules[i].fires /\ ~rules[i].safe
    THEN [findings |-> <<>>, raised |-> "KeyError"]
    ELSE LET fired == SelectSeq(rules, LAMBDA r : r.fires)
         IN  [findings |-> [i \in 1..Len(fired) |->
                              [title |-> fired[i].title, severity |-> fired[i].severity]],
              raised |-> "none"]

Has(m, keys) == keys \subseteq DOMAIN m

get_tactical_insights(team_df, comparison_df) ==
    LET team_sp == get_set_piece_metrics(team_df)
        comp_sp == get_set_piece_metrics(comparison_df)
        team_sq == get_shot_quality_metrics(team_df)
        comp_sq == get_shot_quality_metrics(comparison_df)
        xg_per_shot_diff == SubQ(Lookup(team_sq, "avg_xg_per_shot"), Lookup(comp_sq, "avg_xg_per_shot"))
        blocked_diff == SubQ(Lookup(team_sq, "blocked_rate_pct"), Lookup(comp_sq, "blocked_rate_pct"))
    IN  RunRules(<<
          Rule(LtQ(AddQ(Lookup(comp_sp, "set_piece_xg_pct"), QInt(5)), Lookup(team_sp, "set_piece_xg_pct")),
               Has(team_sp, {"set_piece_xg_pct"}) /\ Has(comp_sp, {"set_piece_xg_pct"}),
               "Set Piece Dependency",
               IF LtQ(QInt(35), Lookup(team_sp, "set_piece_xg_pct")) THEN "high" ELSE "medium"),
          Rule(LtQ(xg_per_shot_diff, Q(-2, 100)),
               Has(team_sq, {"avg_xg_per_shot"}) /\ Has(comp_sq, {"avg_xg_per_shot"}),
               "Shot Quality Gap",
               IF LtQ(xg_per_shot_diff, Q(-3, 100)) THEN "high" ELSE "medium"),
          Rule(LtQ(QInt(5), blocked_diff),
               Has(team_sq, {"blocked_rate_pct"}) /\ Has(comp_sq, {"blocked_rate_pct"}),
               "Shots Being Blocked", "medium"),
          Rule(LtQ(QInt(5), Lookup(team_sq, "woodwork_total")),
               Has(team_sq, {"woodwork_total", "potential_woodwork_goals"}),
               "Finishing Luck", "info"),
          Rule(LtQ(Lookup(team_sp, "open_play_xg_per_game"),
                   SubQ(Lookup(comp_sp, "open_play_xg_per_game"), Q(3, 10))),
               Has(team_sp, {"open_play_xg_per_game"}) /\ Has(comp_sp, {"open_play_xg_per_game"}),
               "Open Play Creation", "high")>>)

get_possession_tactical_insights(team_df, comparison_df) ==
    LET team_eff == get_possession_effectiveness(team_df)
        comp_eff == get_possession_effectiveness(comparison_df)
        better == IF Has(team_eff, {"better_with_possession"})
                  THEN team_eff.better_with_possession ELSE TRUE
        team_xg_eff == Lookup(team_eff, "xg_per_possession_pct")
        comp_xg_eff == Lookup(comp_eff, "xg_per_possession_pct")
    IN  RunRules(<<
          Rule(~better, Has(team_eff, {"low_possession_ppg", "high_possession_ppg"}),
               "Counter-Attack Style More Effective", "high"),
          Rule(LtQ(team_xg_eff, DivQ(MulQ(comp_xg_eff, 8), 10)), TRUE,
               "Possession Efficiency Gap", "medium"),
          Rule(LtQ(Lookup(team_eff, "high_possession_win_rate"), QInt(50))
                 /\ LeQ(QInt(5), Lookup(team_eff, "high_possession_games")),
               Has(team_eff, {"high_possession_win_rate"}),
               "High Possession Not Converting to Wins", "high")>>)

\* ----------------------------------------------------------- raw inputs
Chars55 == <<"5", "5", "%">>

Chars40 == <<" ", "4", "0", ".", "5", " ", "%">>

Chars408 == <<"4", "0", "8", " ", "(", "8", "5", "%", ")">>

Chars12 == <<"1", "2">>

\* the statistics columns of a typical fixture
StatsTypical ==
    [xG |-> Num(150), TotalShots |-> Num(10), ShotsOnTarget |-> Num(4), BigChances |-> Num(3),
     BigChancesMissed |-> Num(1), Corners |-> Num(5), xGOpenPlay |-> Num(100),
     xGSetPlay |-> Num(50), xGOT |-> Num(120), ShotsOffTarget |-> Num(4),
     BlockedShots |-> Num(2), HitWoodwork |-> Num(1), ShotsInsideBox |-> Num(7),
     Passes |-> Num(480), OwnHalf |-> Num(200), OppositionHalf |-> Num(280),
     TouchesInBox |-> Num(20), Tackles |-> Num(15), Interceptions |-> Num(8),
     Blocks |-> Num(3), Clearances |-> Num(12), KeeperSaves |-> Num(2),
     BallPossession |-> Str(Chars55), AccuratePasses |-> Str(Chars408),
     AccurateLongBalls |-> Str(Chars408), AccurateCrosses |-> Str(Chars12),
     SuccessfulDribbles |-> Str(Chars12)]

\* a fixture whose rate denominators are all 0 while the numerators are not
StatsNoDenominator ==
    [xG |-> Num(0), TotalShots |-> Num(0), ShotsOnTarget |-> Num(1), BigChances |-> Num(0),
     BigChancesMissed |-> Num(1), Corners |-> Num(0), xGOpenPlay |-> Num(30),
     xGSetPlay |-> Num(20), xGOT |-> Num(10), ShotsOffTarget |-> Num(1),
     BlockedShots |-> Num(1), HitWoodwork |-> Num(1), ShotsInsideBox |-> Num(1),
     Passes |-> Num(0), OwnHalf |-> Num(3), OppositionHalf |-> Num(4),
     TouchesInBox |-> Num(2), Tackles |-> Num(1), Interceptions |-> Num(0),
     Blocks |-> Num(0), Clearances |-> Num(1), KeeperSaves |-> Num(0),
     BallPossession |-> Str(<<"0", "%">>), AccuratePasses |-> Str(<<"0", " ", "(", "0", "%", ")">>),
     AccurateLongBalls |-> NullStr, AccurateCrosses |-> Str(<<>>),
     SuccessfulDribbles |-> Str(<<"n", "a", "n">>)]

\* a fixture whose cells are missing or hold non-numeric text
StatsUnparseable ==
    [xG |-> TextNum, TotalShots |-> NullNum, ShotsOnTarget |-> Num(2), BigChances |-> TextNum,
     BigChancesMissed |-> NullNum, Corners |-> TextNum, xGOpenPlay |-> NullNum,
     xGSetPlay |-> Num(40), xGOT |-> TextNum, ShotsOffTarget |-> NullNum,
     BlockedShots |-> TextNum, HitWoodwork |-> NullNum, ShotsInsideBox |-> TextNum,
     Passes |-> NullNum, OwnHalf |-> TextNum, OppositionHalf |-> Num(9),
     TouchesInBox |-> NullNum, Tackles |-> TextNum, Interceptions |-> NullNum,
     Blocks |-> TextNum, Clearances |-> NullNum, KeeperSaves |-> TextNum,
     BallPossession |-> NullStr, AccuratePasses |-> Str(<<"x">>),
     AccurateLongBalls |-> Str(<<"-", "3">>), AccurateCrosses |-> NullStr,
     SuccessfulDribbles |-> Str(<<"7", "(", "5", "0", "%", ")">>)]

\* a low-possession fixture with a single shot
StatsLowPossession ==
    Merge(StatsTypical,
      [xG |-> Num(5), TotalShots |-> Num(1), ShotsOnTarget |-> Num(1), BigChances |-> Num(1),
       BigChancesMissed |-> Num(0), Corners |-> Num(1), xGOpenPlay |-> Num(5),
       xGSetPlay |-> Num(0), Passes |-> Num(3), OppositionHalf |-> Num(1),
       BallPossession |-> Str(Chars40)])

StatsProfiles == {StatsTypical, StatsNoDenominator, StatsUnparseable, StatsLowPossession}

\* the result columns (points, Goal scored, Goal conceded) of a fixture
Outcome(points, scored, conceded) ==
    [points |-> points, GoalScored |-> scored, GoalConceded |-> conceded]

Outcomes ==
    {Outcome(Num(3), Num(2), Num(0)),
     Outcome(Num(1), Num(1), Num(1)),
     Outcome(Num(0), Num(0), Num(1)), Outcome(Num(2), Num(1), Num(1)),
     Outcome(TextNum, NullNum, Num(2))}

Saturday12Aug2023 == DateCell("fmt", 2023, 8, 12)

Sunday13Aug2023 == DateCell("fmt", 2023, 8, 13)

DateCells == {Saturday12Aug2023, Sunday13Aug2023, DateCell("text", 0, 0, 0), DateCell("null", 0, 0, 0)}

RoundCells == {Num(1), TextNum}

\* one raw row: load_season_data tags each row of a season file with its season
RawRow(season, team, round, date, outcome, stats) ==
    Merge(Merge(stats, outcome),
          [season |-> season, Team |-> team, Round |-> round, Date |-> date, Side |-> "Home"])

\* load_all_seasons concatenates the season files in SEASON_FILES order: the rows of an
\* earlier season come first
SeasonOrdered(t) == \A i \in 1..Len(t) - 1 : t[i].season <= t[i + 1].season

\* rows that differ in what the sort and the identity of a record read
RowsOrder ==
    {RawRow(s, 1, r, d, Outcome(Num(3), Num(2), Num(0)), StatsTypical) :
        s \in Seasons, r \in RoundCells, d \in DateCells}

\* rows that differ in team, season and result
RowsResults ==
    {RawRow(s, t, Num(1), Saturday12Aug2023, o, StatsTypical) :
        s \in Seasons, t \in Teams, o \in Outcomes}

\* rows that differ in team and statistics
RowsStats ==
    {RawRow(s, t, Num(1), Saturday12Aug2023, Outcome(Num(3), Num(2), Num(0)), st) :
        s \in Seasons, t \in Teams, st \in StatsProfiles}

\* the results of the worked example: goals 2, 1, 0 against 0, 1, 2
SummaryOutcomes ==
    {Outcome(Num(3), Num(2), Num(0)), Outcome(Num(1), Num(1), Num(1)),
     Outcome(Num(0), Num(0), Num(2))}

\* rows that differ in team, season and the example's results
RowsSummary ==
    {RawRow(s, t, Num(1), Saturday12Aug2023, o, StatsTypical) :
        s \in Seasons, t \in Teams, o \in SummaryOutcomes}

\* the texts of a count / percentage / possession cell: an optional lead, a number, a
\* separator, a second number and a tail, each possibly empty; or a null cell
TextCells ==
    {NullStr} \cup {Str(a \o b \o c \o d \o e) :
        a \in {<<>>, <<" ">>, <<"-">>},
        b \in {<<>>, <<"0">>, <<"5">>, <<"4", "5">>, <<"5", "5">>, <<"1", "0", "0">>,
               <<"1", "2", "0">>, <<"4", "0", ".", "5">>, <<"i", "n", "f">>, <<"n", "a", "n">>},
        c \in {<<>>, <<" ", "(">>, <<"(">>, <<"%">>, <<".">>},
        d \in {<<>>, <<"8", "5">>, <<"1", "5", "0">>},
        e \in {<<>>, <<"%", ")">>, <<"%">>, <<"x">>}}

\* Date cells: two dates, February 30, an unknown month name, other text, a number, null
ParseDateCells ==
    DateCells \cup {DateCell("fmt", 2023, 2, 30), DateCell("fmt", 2023, 0, 12),
                    DateCell("num", 0, 0, 0)}

\* one-fixture rows that differ in the text of the parsed cells, or in the Date cell
RowsParse ==
    {RawRow(1, 1, Num(1), Saturday12Aug2023, Outcome(Num(3), Num(2), Num(0)),
            Merge(StatsTypical, [BallPossession |-> c, AccuratePasses |-> c])) : c \in TextCells}
    \cup {RawRow(1, 1, Num(1), d, Outcome(Num(3), Num(2), Num(0)), StatsTypical) :
            d \in ParseDateCells}

\* fixtures of 1.00 xG of which sp hundredths come from set play, drawn 1-1 with 55%
\* possession; and a wasteful fixture won 2-0 with 40.5% possession: 50 shots for 0.50 xG,
\* 20 of them blocked, 6 against the woodwork; and a single-shot fixture drawn 1-1 with
\* 40.5% possession
RowsRules ==
    {RawRow(1, t, Num(1), Saturday12Aug2023, Outcome(Num(1), Num(1), Num(1)),
            Merge(StatsTypical, [xG |-> Num(100), xGSetPlay |-> Num(sp),
                                 xGOpenPlay |-> Num(100 - sp)])) :
        t \in Teams, sp \in {27, 29, 30, 33, 35, 36, 40}}
    \cup {RawRow(1, t, Num(1), Saturday12Aug2023, Outcome(Num(3), Num(2), Num(0)),
            Merge(StatsLowPossession, [xG |-> Num(50), xGSetPlay |-> Num(30),
                                       xGOpenPlay |-> Num(20), TotalShots |-> Num(50),
                                       BlockedShots |-> Num(20), HitWoodwork |-> Num(6)])) :
        t \in Teams}
    \cup {RawRow(1, t, Num(1), Saturday12Aug2023, Outcome(Num(1), Num(1), Num(1)),
            StatsLowPossession) : t \in Teams}

\* a run of fixtures of one possession bucket: the first `wins` of its `games` are won
\* 2-0, the next `draws` drawn 1-1 and the others lost 0-1; a run without a win is all lost
ResultRuns ==
    {run \in [games : {0, ShortRun, LongRun}, wins : 0..1, draws : {0, 2}] :
        run.wins + run.draws <= run.games /\ run.draws <= 2 * run.wins}

\* a team's season file: the fixtures of run hi with 55% possession in rounds
\* 1..hi.games, then those of run lo with 40.5% possession, at home and away in turn
SeasonOf(team, hi, lo) ==
    [i \in 1..hi.games + lo.games |->
        LET run == IF i <= hi.games THEN hi ELSE lo
            k == IF i <= hi.games THEN i ELSE i - hi.games
        IN  Merge(RawRow(1, team, Num(i), Saturday12Aug2023,
                         IF k <= run.wins THEN Outcome(Num(3), Num(2), Num(0))
                         ELSE IF k <= run.wins + run.draws THEN Outcome(Num(1), Num(1), Num(1))
                         ELSE Outcome(Num(0), Num(0), Num(1)),
                         IF i <= hi.games THEN StatsTypical ELSE StatsLowPossession),
                  [Side |-> IF i % 2 = 1 THEN "Home" ELSE "Away"])]

\* ---------------------------------------------------------------- actions
NoArg == [season |-> NoSeason, team |-> 0, last_n |-> 0]

\* the state after load_all_seasons: a raw table of at most maxLen of the rows
Loaded(rows, maxLen) ==
    /\ \E n \in 0..maxLen : raw \in [1..n -> rows]
    /\ SeasonOrdered(raw)
    /\ canon = <<>>
    /\ runs = 0
    /\ err = "none"
    /\ op = "load"
    /\ arg = NoArg
    /\ result = <<>>
    /\ session = <<>>

Init == Loaded(RowsResults, MaxMatches)

InitOrder == Loaded(RowsOrder, MaxRows)

InitStats == Loaded(RowsStats, MaxMatches)

InitSummary == Loaded(RowsSummary, MaxMatches)

InitRules == Loaded(RowsRules, MaxMatches)

\* a loaded table of the first team's long season and at most one fixture of each other
\* team, drawn at home, away or at a neutral ground
InitSeason ==
    /\ \E hi \in ResultRuns, lo \in ResultRuns, others \in SUBSET (Teams \ {1}),
          side \in {"Home", "Away", "Neutral"} :
          raw = SeasonOf(1, hi, lo)
                \o SelectSeq([t \in Teams |->
                                Merge(RawRow(1, t, Num(1), Saturday12Aug2023,
                                             Outcome(Num(1), Num(1), Num(1)), StatsTypical),
                                      [Side |-> side])],
                             LAMBDA r : r.Team \in others)
    /\ canon = <<>>
    /\ runs = 0
    /\ err = "none"
    /\ op = "load"
    /\ arg = NoArg
    /\ result = <<>>
    /\ session = <<>>

\* a loaded table of one fixture
InitParse == Loaded(RowsParse, 1) /\ Len(raw) = 1

\* df = preprocess_data(df) on the loaded table
Preprocess ==
    /\ runs < MaxRuns
    /\ runs' = runs + 1
    /\ err' = PreprocessRaises(raw)
    /\ canon' = IF err' = "none" THEN preprocess_data(raw) ELSE canon
    /\ raw' = InputAfter(raw)
    /\ op' = "preprocess_data"
    /\ arg' = NoArg
    /\ result' = <<>>
    /\ UNCHANGED session

\* one page render normalizes the loaded table once
Normalize == runs = 0 /\ Preprocess

\* preprocess_data has returned the canonical table
Normalized == runs >= 1 /\ err = "none"

\* the page holds a canonical table and is between two calls
Ready == runs >= 1 /\ err = "none" /\ op \in {"preprocess_data", "return"}

\* the table a page hands to a per-team function: get_team_data(filter_by_season(df, s), t)
TeamTable(df, a) == get_team_data(filter_by_season(df, a.season), a.team)

\* what a metrics or aggregation call leaves in the table the page holds: the functions
\* index, filter, group and sum the table and assign only to frames they derived; the
\* variant narrows the caller's table to the season asked for
TableAfterCallInPlace(df, a) ==
    IF a.season \in Seasons THEN filter_by_season(df, a.season) ELSE df

TableAfterCall(df, a) == df

Call(name, a, value) ==
    /\ Ready
    /\ op' = name
    /\ arg' = a
    /\ result' = value
    /\ canon' = TableAfterCall(canon, a)
    /\ UNCHANGED <<raw, runs, err, session>>

\* the page has used the value a call returned
Return ==
    /\ op \notin {"load", "preprocess_data", "return"}
    /\ op' = "return"
    /\ arg' = NoArg
    /\ result' = <<>>
    /\ UNCHANGED <<raw, canon, runs, err, session>>

GetForm ==
    \E s \in Seasons, t \in Teams, n \in 0..MaxLastN :
        LET a == [season |-> s, team |-> t, last_n |-> n]
        IN  Call("get_form", a, get_form(TeamTable(canon, a), n))

CalculateLeaguePosition ==
    \E s \in Seasons \cup {NoSeason} :
        LET a == [season |-> s, team |-> 0, last_n |-> 0]
        IN  Call("calculate_league_position", a, calculate_league_position(canon, s))

GetAttackingMetrics ==
    \E s \in Seasons, t \in Teams :
        LET a == [season |-> s, team |-> t, last_n |-> 0]
        IN  Call("get_attacking_metrics", a, get_attacking_metrics(TeamTable(canon, a)))

GetDefensiveMetrics ==
    \E s \in Seasons, t \in Teams :
        LET a == [season |-> s, team |-> t, last_n |-> 0]
        IN  Call("get_defensive_metrics", a, get_defensive_metrics(TeamTable(canon, a)))

GetPossessionMetrics ==
    \E s \in Seasons, t \in Teams :
        LET a == [season |-> s, team |-> t, last_n |-> 0]
        IN  Call("get_possession_metrics", a, get_possession_metrics(TeamTable(canon, a)))

GetSetPieceMetrics ==
    \E s \in Seasons, t \in Teams :
        LET a == [season |-> s, team |-> t, last_n |-> 0]
        IN  Call("get_set_piece_metrics", a, get_set_piece_metrics(TeamTable(canon, a)))

GetShotQualityMetrics ==
    \E s \in Seasons, t \in Teams :
        LET a == [season |-> s, team |-> t, last_n |-> 0]
        IN  Call("get_shot_quality_metrics", a, get_shot_quality_metrics(TeamTable(canon, a)))

GetPossessionEffectiveness ==
    \E s \in Seasons, t \in Teams :
        LET a == [season |-> s, team |-> t, last_n |-> 0]
        IN  Call("get_possession_effectiveness", a, get_possession_effectiveness(TeamTable(canon, a)))

\* a page's season selectbox, shown with the season key the session holds
SelectSeason ==
    \E key \in Seasons \cup {UnknownSeason} :
        LET a == [season |-> key, team |-> 0, last_n |-> 0]
        IN  Call("selectbox", a, [raised |-> "none", season |-> selectbox_season(key)])

\* filter_by_season(df, key): it returns the matching rows and has no raise
FilterBySeason ==
    \E key \in Seasons \cup {UnknownSeason} :
        LET a == [season |-> key, team |-> 0, last_n |-> 0]
        IN  Call("filter_by_season", a, [raised |-> "none", rows |-> filter_by_season(canon, key)])

GetSeasonSummary ==
    \E s \in Seasons, t \in Teams :
        LET a == [season |-> s, team |-> t, last_n |-> 0]
        IN  Call("get_season_summary", a, get_season_summary(TeamTable(canon, a)))

\* a field parser applied to one cell of the loaded fixture, as preprocess_data's
\* df[col].apply(parser) does for each row
Apply(name, cell, value) ==
    /\ op = "load"
    /\ op' = name
    /\ arg' = cell
    /\ result' = value
    /\ UNCHANGED <<raw, canon, runs, err, session>>

ParsePercentageString ==
    Apply("parse_percentage_string", raw[1].AccuratePasses,
          parse_percentage_string(raw[1].AccuratePasses))

ParsePossession ==
    Apply("parse_possession", raw[1].BallPossession,
          [value |-> parse_possession(raw[1].BallPossession), raised |-> "none"])

ParseDate ==
    Apply("parse_date", raw[1].Date,
          [date |-> parse_date(raw[1].Date),
           raised |-> IF parse_date_raises(raw[1].Date) THEN "AttributeError" ELSE "none"])

GetShotOutcomeBreakdown ==
    \E s \in Seasons, t \in Teams :
        LET a == [season |-> s, team |-> t, last_n |-> 0]
        IN  Call("get_shot_outcome_breakdown", a, get_shot_outcome_breakdown(TeamTable(canon, a)))

GetHomeAwaySplit ==
    \E s \in Seasons, t \in Teams :
        LET a == [season |-> s, team |-> t, last_n |-> 0]
        IN  Call("get_home_away_split", a, get_home_away_split(TeamTable(canon, a)))

\* GetMetrics-style calls that take a subject and a comparison collection
ComparisonTable(df, a) == get_team_data(filter_by_season(df, a.season), a.comparison)

GetTacticalInsights ==
    \E s \in Seasons, t \in Teams : \E c \in Teams \ {t} :
        LET a == [season |-> s, team |-> t, last_n |-> 0, comparison |-> c]
        IN  Call("get_tactical_insights", a,
                 get_tactical_insights(TeamTable(canon, a), ComparisonTable(canon, a)))

GetPossessionTacticalInsights ==
    \E s \in Seasons, t \in Teams : \E c \in Teams \ {t} :
        LET a == [season |-> s, team |-> t, last_n |-> 0, comparison |-> c]
        IN  Call("get_possession_tactical_insights", a,
                 get_possession_tactical_insights(TeamTable(canon, a), ComparisonTable(canon, a)))

\* ------------------------------------------------------------ page sidebar
\* sorted(df["Team"].unique()): the options of a page's team selectbox
TeamOptions(df) == {df[i].Team : i \in 1..Len(df)}

\* what st.selectbox returns on an empty option list
NoTeam == 0

\* a page's sidebar: the user's team, comparison teams (where the page has the
\* multiselect: options without the team, at most max_selections) and season, stored in
\* the session under the keys the page writes
Sidebar(page, keys) ==
    /\ Normalized
    /\ \E t \in (IF TeamOptions(canon) = {} THEN {NoTeam} ELSE TeamOptions(canon)) :
       \E c \in SUBSET (TeamOptions(canon) \ {t}), s \in Seasons :
          /\ Cardinality(c) <= MaxSelections
          /\ session' = Merge(session, [k \in keys |->
                 CASE k = "selected_team" -> t
                   [] k = "comparison_teams" -> c
                   [] k = "selected_season" -> s])
    /\ op' = page
    /\ arg' = NoArg
    /\ result' = <<>>
    /\ UNCHANGED <<raw, canon, runs, err>>

\* home.py show()
RenderHome == Sidebar("home", {"selected_team", "comparison_teams", "selected_season"})

\* the Season Overview, Attacking, Defensive and Possession pages
RenderAnalysisPage == Sidebar("analysis", {"selected_team", "comparison_teams", "selected_season"})

\* the Match Explorer has no comparison multiselect and stores team and season only
RenderMatchExplorer == Sidebar("match_explorer", {"selected_team", "selected_season"})

\* the user moving between the pages of one session
NextSession == Normalize \/ RenderHome \/ RenderAnalysisPage \/ RenderMatchExplorer

SpecSession == Init /\ [][NextSession]_vars

\* a page render over result-varied tables: normalize once, then the aggregation layer
Next == Normalize \/ GetForm \/ CalculateLeaguePosition \/ Return

Spec == Init /\ [][Next]_vars

\* repeated normalization of one loaded table
NextNormalize == Preprocess

SpecNormalize == InitOrder /\ [][NextNormalize]_vars

\* a page render over statistics-varied tables: normalize once, then the metrics engines
NextMetrics ==
    \/ Normalize
    \/ GetAttackingMetrics
    \/ GetDefensiveMetrics
    \/ GetPossessionMetrics
    \/ GetSetPieceMetrics
    \/ GetShotQualityMetrics
    \/ GetPossessionEffectiveness
    \/ Return

SpecMetrics == InitStats /\ [][NextMetrics]_vars
\* the field parsers on one fixture, alone and inside preprocess_data
NextParse == Normalize \/ ParsePercentageString \/ ParsePossession \/ ParseDate

SpecParse == InitParse /\ [][NextParse]_vars

\* the attacking and possession pages' insights: the shot outcome breakdown of a team and
\* the two rule engines on a subject and a comparison team of one season
NextRules ==
    \/ Normalize
    \/ GetShotOutcomeBreakdown
    \/ GetTacticalInsights
    \/ GetPossessionTacticalInsights
    \/ Return

SpecRules == InitRules /\ [][NextRules]_vars

\* the pages over a long season: the home/away split, the possession effectiveness map
\* and the possession rule engine
NextSeason ==
    \/ Normalize
    \/ GetHomeAwaySplit
    \/ GetPossessionEffectiveness
    \/ GetPossessionTacticalInsights
    \/ Return

SpecSeason == InitSeason /\ [][NextSeason]_vars

\* the overview page: season selection, the season summary and the engines it spreads
NextSummary ==
    \/ Normalize
    \/ SelectSeason
    \/ FilterBySeason
    \/ GetSeasonSummary
    \/ GetAttackingMetrics
    \/ GetDefensiveMetrics
    \/ Return

SpecSummary == InitSummary /\ [][NextSummary]_vars

\* ================================================================ claims
RowsOf(t) == {t[i] : i \in 1..Len(t)}

\* the table the last per-team call was given
CallTable == TeamTable(canon, arg)

\* ---------------------------------------------------------------------- C1
\* C1: every record preprocess_data produces has exactly one of is_win, is_draw,
\* is_loss set, i.e. is_win + is_draw + is_loss = 1, whatever the raw points cell held.
C1_OutcomeExclusive ==
    Normalized => \A r \in RowsOf(canon) : r.is_win + r.is_draw + r.is_loss = 1

\* ---------------------------------------------------------------------- C2
AllZero(m, keys) == \A k \in keys : IsZero(Lookup(m, k))

ShotRates ==
    {"shot_conversion_pct", "shots_on_target_pct", "shots_inside_box_pct", "xg_per_shot",
     "woodwork_rate", "blocked_shot_rate", "shots_off_target_rate"}

RowRates == ShotRates \cup {"big_chance_conversion_pct", "opp_half_passes_pct",
                            "xg_open_play_ratio", "xg_set_play_ratio"}

\* C2: in every rate computation, per match and aggregated per team, a denominator of 0
\* yields the value 0 whatever the numerator is, and no rate is ever not-a-number.
C2_SafeDivision ==
    /\ Normalized =>
         \A r \in RowsOf(canon) :
            /\ \A k \in RowRates : ~IsNaN(r[k])
            /\ r.TotalShots = 0 => AllZero(r, ShotRates)
            /\ r.BigChances = 0 => IsZero(r.big_chance_conversion_pct)
            /\ r.Passes = 0 => IsZero(r.opp_half_passes_pct)
            /\ r.xG = 0 => AllZero(r, {"xg_open_play_ratio", "xg_set_play_ratio"})
    /\ op = "get_attacking_metrics" =>
         /\ \A k \in DOMAIN result : ~IsNaN(result[k])
         /\ Sum(CallTable, "TotalShots") = 0 =>
              AllZero(result, {"shot_conversion_pct", "shots_on_target_pct", "shots_inside_box_pct"})
         /\ Sum(CallTable, "BigChances") = 0 => IsZero(result.big_chance_conversion_pct)
    /\ op = "get_set_piece_metrics" =>
         /\ ~IsNaN(Lookup(result, "set_piece_xg_pct")) /\ ~IsNaN(Lookup(result, "xg_per_corner"))
         /\ Sum(CallTable, "xG") = 0 => IsZero(Lookup(result, "set_piece_xg_pct"))
         /\ Sum(CallTable, "Corners") = 0 => IsZero(Lookup(result, "xg_per_corner"))
    /\ op = "get_shot_quality_metrics" =>
         /\ ~IsNaN(Lookup(result, "avg_xg_per_shot"))
         /\ Sum(CallTable, "TotalShots") = 0 => IsZero(Lookup(result, "avg_xg_per_shot"))
    /\ op = "get_possession_effectiveness" =>
         /\ ~IsNaN(Lookup(result, "xg_per_possession_pct"))
         /\ IsZero(SumQ(CallTable, "possession_pct")) => IsZero(Lookup(result, "xg_per_possession_pct"))

\* a team whose fixtures have goals but no shots, no big chances, no passes and no xG
C2_Witness ==
    /\ op = "get_attacking_metrics"
    /\ Len(CallTable) > 0
    /\ Sum(CallTable, "TotalShots") = 0
    /\ Sum(CallTable, "GoalScored") > 0
    /\ Sum(CallTable, "BigChances") = 0
    /\ Sum(CallTable, "BigChancesMissed") > 0
    /\ \E r \in RowsOf(canon) : r.TotalShots = 0 /\ r.GoalScored > 0 /\ r.xG = 0 /\ r.xGSetPlay > 0

\* ---------------------------------------------------------------------- C3
AttackingKeys ==
    {"matches", "total_goals", "total_xg", "goals_per_game", "xg_per_game", "xg_overperformance",
     "xg_overperformance_per_game", "shot_conversion_pct", "shots_on_target_pct",
     "big_chance_conversion_pct", "shots_per_game", "shots_on_target_per_game",
     "big_chances_per_game", "xgot_per_game", "shots_inside_box_pct", "total_big_chances",
     "total_big_chances_missed"}

DefensiveKeys ==
    {"matches", "total_goals_conceded", "goals_conceded_per_game", "clean_sheets",
     "clean_sheet_pct", "tackles_per_game", "interceptions_per_game", "blocks_per_game",
     "clearances_per_game", "defensive_actions_per_game", "saves_per_game", "total_tackles",
     "total_interceptions", "total_blocks", "total_clearances"}

PossessionKeys ==
    {"matches", "avg_possession", "passes_per_game", "pass_accuracy_pct",
     "opp_half_passes_per_game", "own_half_passes_per_game", "long_ball_accuracy_pct",
     "cross_accuracy_pct", "touches_in_box_per_game", "corners_per_game",
     "successful_dribbles_per_game", "total_passes", "total_corners"}

EngineKeys(name) ==
    IF name = "get_attacking_metrics" THEN AttackingKeys
    ELSE IF name = "get_defensive_metrics" THEN DefensiveKeys
    ELSE PossessionKeys

EngineCall == op \in {"get_attacking_metrics", "get_defensive_metrics", "get_possession_metrics"}

\* C3: the three get_*_metrics return a map with the same fixed key set for every input;
\* on an empty collection every entry is a well-defined 0 (matches included).
C3_MetricsTotalOnEmpty ==
    EngineCall =>
        /\ DOMAIN result = EngineKeys(op)
        /\ CallTable = <<>> => \A k \in DOMAIN result : IsZero(result[k])

\* an engine called for a team with no record in the season, while other records exist
C3_Witness ==
    /\ op = "get_possession_metrics"
    /\ CallTable = <<>>
    /\ Len(canon) = MaxMatches
    /\ result.matches = QInt(0)

\* ---------------------------------------------------------------------- C4
\* (Points, GD, GF) of a at or above that of b, lexicographically
RankGE(a, b) ==
    \/ a.Points > b.Points
    \/ a.Points = b.Points /\ a.GD > b.GD
    \/ a.Points = b.Points /\ a.GD = b.GD /\ a.GF >= b.GF

TeamsIn(df, season) ==
    {df[i].Team : i \in {j \in 1..Len(df) : season = NoSeason \/ df[j].season = season}}

\* C5: the standings hold exactly one row per team that has a record in the season, and
\* the Position values are 1..N in row order, also when teams are level on every key.
C5_OneRowPerTeam ==
    op = "calculate_league_position" =>
        /\ Len(result) = Cardinality(TeamsIn(canon, arg.season))
        /\ {result[i].Team : i \in 1..Len(result)} = TeamsIn(canon, arg.season)
        /\ \A i \in 1..Len(result) : result[i].Position = i

\* two teams level on points, goal difference and goals for take positions 1 and 2
C5_Witness ==
    /\ op = "calculate_league_position"
    /\ arg.season # NoSeason
    /\ Len(result) = 2
    /\ result[1].Points = result[2].Points
    /\ result[1].GD = result[2].GD
    /\ result[1].GF = result[2].GF
    /\ result[1].Position = 1 /\ result[2].Position = 2

\* ---------------------------------------------------------------------- C6
Min(a, b) == IF a < b THEN a ELSE b

\* the outcome of a record, read from its points
OutcomeLetter(r) == IF r.points = 3 THEN "W" ELSE IF r.points = 1 THEN "D" ELSE "L"

\* C6: get_form(table, N) reads the last min(N, len) records in the table's order: the
\* form string has min(N, len) characters, the i-th the outcome of the i-th record of
\* that tail, oldest first.
C6_FormWindow ==
    op = "get_form" =>
        LET df == CallTable
            k == Min(arg.last_n, Len(df))
        IN  /\ Len(result.form_string) = k
            /\ \A i \in 1..k : result.form_string[i] = OutcomeLetter(df[Len(df) - k + i])

\* a window shorter than the table, whose first record differs from the table's first
C6_Witness ==
    /\ op = "get_form"
    /\ arg.last_n = 1
    /\ Len(CallTable) = 2
    /\ OutcomeLetter(CallTable[1]) # OutcomeLetter(CallTable[2])
    /\ result.form_string = <<OutcomeLetter(CallTable[2])>>

\* ---------------------------------------------------------------------- C7
\* the points of records from..Len(df) of df
RECURSIVE PointsFrom(_, _)
PointsFrom(df, from) == IF from > Len(df) THEN 0 ELSE df[from].points + PointsFrom(df, from + 1)

\* C7: get_form(table, N) reports max_points = 3 * N whatever the number of records,
\* and points = the sum of points over exactly the records of the window.
C7_FormPoints ==
    op = "get_form" =>
        /\ result.max_points = 3 * arg.last_n
        /\ result.points = PointsFrom(CallTable, Len(CallTable) - Min(arg.last_n, Len(CallTable)) + 1)

\* fewer records than the window asks for
C7_Witness ==
    /\ op = "get_form"
    /\ Len(CallTable) = 2
    /\ arg.last_n = 3
    /\ Len(result.form_string) = 2
    /\ result.points > 0
    /\ result.max_points = 9

\* ---------------------------------------------------------------------- C8
DateBefore(a, b) ==
    a.y < b.y \/ (a.y = b.y /\ a.m < b.m) \/ (a.y = b.y /\ a.m = b.m /\ a.d <= b.d)

\* C8: the canonical table is sorted ascending by (season, Round, parsed date): consecutive
\* records have non-decreasing (season, Round); within one season and Round the dated
\* records are in ascending date order; absent dates never make the sort fail.
C8_CanonSorted ==
    runs >= 1 =>
        /\ err = "none"
        /\ Len(canon) = Len(raw)
        /\ \A i \in 1..Len(canon) - 1 :
              \/ canon[i].season < canon[i + 1].season
              \/ canon[i].season = canon[i + 1].season /\ canon[i].Round <= canon[i + 1].Round
        /\ \A i \in 1..Len(canon) : \A j \in i + 1..Len(canon) :
              (/\ canon[i].season = canon[j].season
               /\ canon[i].Round = canon[j].Round
               /\ canon[i].date_parsed.some
               /\ canon[j].date_parsed.some)
              => DateBefore(canon[i].date_parsed, canon[j].date_parsed)

\* a table the sort had to reorder, holding a record with no date
C8_Witness ==
    /\ runs >= 1
    /\ Len(canon) = MaxRows
    /\ \E r \in RowsOf(canon) : ~r.date_parsed.some
    /\ \E i \in 1..Len(raw) : ToNumeric(raw[i].Round) # canon[i].Round
    /\ \E i \in 1..Len(raw) : parse_date(raw[i].Date) # canon[i].date_parsed

C10_UniqueTriple ==
    Normalized =>
        \A i \in 1..Len(canon) : \A j \in 1..Len(canon) :
            i # j => <<canon[i].season, canon[i].Team, canon[i].Round>>
                     # <<canon[j].season, canon[j].Team, canon[j].Round>>

\* --------------------------------------------------------------------- C11
\* C11: a season key that is not a configured season fails with an unknown-season error:
\* filter_by_season on it raises rather than returning a subset, and the season
\* selection raises rather than showing another season in its place.
C11_UnknownSeasonFails ==
    (op \in {"filter_by_season", "selectbox"} /\ arg.season \notin Seasons)
        => result.raised = "unknown season"

\* --------------------------------------------------------------------- C19
\* C19: get_season_summary returns the empty map for an empty collection; otherwise it
\* holds matches_played = number of records, total_points = sum of points, and every key
\* of the attacking, defensive and possession maps with the value that engine returns.
C19_SeasonSummary ==
    op = "get_season_summary" =>
        LET df == CallTable
            engines == <<get_attacking_metrics(df), get_defensive_metrics(df),
                         get_possession_metrics(df)>>
        IN  IF df = <<>> THEN result = NoMetrics
            ELSE /\ result.matches_played = QInt(Len(df))
                 /\ result.total_points = QInt(PointsFrom(df, 1))
                 /\ \A e \in 1..3 : \A k \in DOMAIN engines[e] :
                       k \in DOMAIN result /\ result[k] = engines[e][k]

\* the summary of a team with a win and a draw: 4 points from 2 matches
C19_Witness ==
    /\ op = "get_season_summary"
    /\ Len(CallTable) = 2
    /\ result.total_points = QInt(4)
    /\ result.matches_played = QInt(2)
    /\ result.goals_per_game = Q(150, 100)

\* --------------------------------------------------------------------- C20
\* the number of records of df with nothing conceded
CleanSheetCount(df) == Cardinality({i \in 1..Len(df) : df[i].GoalConceded = 0})

\* q is the fraction num / den rounded to a multiple of 1 / unit
RoundedTo(q, num, den, unit) ==
    /\ q.d = unit
    /\ 2 * (q.n * den - num * unit) <= den
    /\ 2 * (num * unit - q.n * den) <= den

CountPctForm(s) ==
    \E k \in 1..Len(s), w \in 0..Len(s), p \in 1..Len(s) :
        /\ k + w + p + 3 <= Len(s)
        /\ \A i \in 1..k : s[i] \in Digits
        /\ \A i \in k + 1..k + w : s[i] = " "
        /\ s[k + w + 1] = "("
        /\ \A i \in k + w + 2..k + w + 1 + p : s[i] \in Digits
        /\ s[k + w + p + 2] = "%" /\ s[k + w + p + 3] = ")"

\* C12: parse_percentage_string never raises; a null, empty or otherwise unparseable
\* input, numeric text that is not a finite number included, returns (0, 0.0).
C12_CountPctTotal ==
    op = "parse_percentage_string" =>
        /\ result.raised = "none"
        /\ (arg.t = "null" \/ (~CountPctForm(Strip(arg.s)) /\ FloatOf(Strip(arg.s)).kind # "fin"))
              => (result.count = 0 /\ IsZero(result.pct))

\* --------------------------------------------------------------------- C13
\* C13: in every normalized record each <field>_count is a non-negative integer, each
\* <field>_pct lies in [0, 1] and possession_pct lies in [0, 100].
C13_ParsedRanges ==
    Normalized =>
        \A r \in RowsOf(canon) :
            /\ \A c \in percentage_columns :
                  /\ r[c \o "_count"] >= 0
                  /\ LeQ(QInt(0), r[c \o "_pct"]) /\ LeQ(r[c \o "_pct"], QInt(1))
            /\ LeQ(QInt(0), r.possession_pct) /\ LeQ(r.possession_pct, QInt(100))

\* --------------------------------------------------------------------- C14
\* C14: parse_date returns the date for text of the form "<Weekday>, <Month> <Day>,
\* <Year>" and an absent value, never an exception, for every other input: null, text in
\* another format and non-text values.
C14_DateTotal ==
    op = "parse_date" =>
        /\ result.raised = "none"
        /\ (arg.t = "fmt" /\ arg.m \in 1..12 /\ arg.d \in 1..DaysInMonth(arg.y, arg.m))
              => (result.date.some /\ <<result.date.y, result.date.m, result.date.d>>
                                        = <<arg.y, arg.m, arg.d>>)
        /\ arg.t # "fmt" => ~result.date.some

\* --------------------------------------------------------------------- C15
\* the label of the half-open intervals [0,45), [45,55), [55,100]
HalfOpenBucket(p) ==
    IF LtQ(p, QInt(45)) THEN "Low (<45%)"
    ELSE IF LtQ(p, QInt(55)) THEN "Medium (45-55%)"
    ELSE "High (>55%)"

\* C15: the possession bucket label of a normalized record follows [0,45) -> Low,
\* [45,55) -> Medium, [55,100] -> High; every possession_pct in 0..100 has a label.
C15_PossessionBuckets ==
    Normalized =>
        \A r \in RowsOf(canon) :
            (LeQ(QInt(0), r.possession_pct) /\ LeQ(r.possession_pct, QInt(100)))
                => r.possession_category = HalfOpenBucket(r.possession_pct)

\* --------------------------------------------------------------------- C16
\* the table of the comparison team of the last two-team call
CompTable == ComparisonTable(canon, arg)

\* the finding with this title that the last call returned, <<>> if there is none
FindingOf(title) == SelectSeq(result.findings, LAMBDA f : f.title = title)

\* C16: the Set Piece Dependency finding is emitted iff the subject's set-piece-xG% is
\* greater than the comparison's plus 5; its severity is high if the subject's
\* set-piece-xG% is greater than 35 and medium otherwise.
C16_SetPieceRule ==
    op = "get_tactical_insights" =>
        LET subject == Lookup(get_set_piece_metrics(CallTable), "set_piece_xg_pct")
            other == Lookup(get_set_piece_metrics(CompTable), "set_piece_xg_pct")
            found == FindingOf("Set Piece Dependency")
        IN  /\ Len(found) = (IF subject.n * other.d > (other.n + 5 * other.d) * subject.d THEN 1 ELSE 0)
            /\ \A i \in 1..Len(found) :
                  found[i].severity = (IF subject.n > 35 * subject.d THEN "high" ELSE "medium")

\* --------------------------------------------------------------------- C17
RuleOrder ==
    <<"Set Piece Dependency", "Shot Quality Gap", "Shots Being Blocked", "Finishing Luck",
      "Open Play Creation", "Counter-Attack Style More Effective", "Possession Efficiency Gap",
      "High Possession Not Converting to Wins">>

\* the triggers of the rules that read the subject team only
SubjectOnlyTrigger(title) ==
    IF title = "Finishing Luck"
    THEN Lookup(get_shot_quality_metrics(CallTable), "woodwork_total").n > 5
    ELSE /\ title = "Counter-Attack Style More Effective"
         /\ CallTable # <<>>
         /\ ~get_possession_effectiveness(CallTable).better_with_possession

\* C17: the rules are independent and order-stable: each rule emits at most one
\* finding, the findings appear in the fixed listed order, and whether a rule emits
\* depends on its own trigger only, never on whether another rule fired.
C17_RulesIndependent ==
    op \in {"get_tactical_insights", "get_possession_tactical_insights"} =>
        /\ \A t \in 1..Len(RuleOrder) : Len(FindingOf(RuleOrder[t])) <= 1
        /\ \A i \in 1..Len(result.findings) : \A j \in i + 1..Len(result.findings) :
              \E a \in 1..Len(RuleOrder), b \in 1..Len(RuleOrder) :
                  /\ a < b
                  /\ result.findings[i].title = RuleOrder[a]
                  /\ result.findings[j].title = RuleOrder[b]
        /\ op = "get_tactical_insights" =>
              (Len(FindingOf("Finishing Luck")) = 1 <=> SubjectOnlyTrigger("Finishing Luck"))
        /\ op = "get_possession_tactical_insights" =>
              (Len(FindingOf("Counter-Attack Style More Effective")) = 1
                 <=> SubjectOnlyTrigger("Counter-Attack Style More Effective"))

\* --------------------------------------------------------------------- C18
\* C18: the rule engines return a list of findings without raising when the subject
\* collection, the comparison collection or both are empty.
C18_EmptySubsetNoError ==
    (/\ op \in {"get_tactical_insights", "get_possession_tactical_insights"}
     /\ (CallTable = <<>> \/ CompTable = <<>>))
        => result.raised = "none"

\* --------------------------------------------------------------------- C21
\* the subject's possession-effectiveness map of the last two-team call
SubjectEff == get_possession_effectiveness(CallTable)

\* C21: the Counter-Attack finding is emitted only if the subject's low-possession
\* points-per-game is strictly greater than its high-possession points-per-game, and is
\* emitted whenever that holds with games in both buckets; it is not emitted when the two
\* are equal nor when the subject collection is empty.
C21_CounterAttackRule ==
    op = "get_possession_tactical_insights" =>
        LET found == FindingOf("Counter-Attack Style More Effective")
            low == Lookup(SubjectEff, "low_possession_ppg")
            high == Lookup(SubjectEff, "high_possession_ppg")
        IN  /\ Len(found) = 1 => LtQ(high, low)
            /\ (/\ LtQ(high, low)
                /\ LtQ(QInt(0), Lookup(SubjectEff, "low_possession_games"))
                /\ LtQ(QInt(0), Lookup(SubjectEff, "high_possession_games")))
                  => Len(found) = 1
            /\ CallTable = <<>> => Len(found) = 0

\* --------------------------------------------------------------------- C23
\* C23: the Shot Quality Gap finding is emitted iff the subject's xG per shot minus the
\* comparison's is less than -0.02; its severity is high when that difference is less
\* than -0.03 and medium when it lies in [-0.03, -0.02).
C23_ShotQualityRule ==
    op = "get_tactical_insights" =>
        LET subject == Lookup(get_shot_quality_metrics(CallTable), "avg_xg_per_shot")
            other == Lookup(get_shot_quality_metrics(CompTable), "avg_xg_per_shot")
            \* the difference in thousandths: both values carry three decimals
            diff == (subject.n * 1000) \div subject.d - (other.n * 1000) \div other.d
            found == FindingOf("Shot Quality Gap")
        IN  /\ Len(found) = (IF diff < -20 THEN 1 ELSE 0)
            /\ \A i \in 1..Len(found) :
                  found[i].severity = (IF diff < -30 THEN "high" ELSE "medium")

\* --------------------------------------------------------------------- C22
\* the effectiveness maps of the first team's seasons, by their two runs
EffOfRuns ==
    [hi \in ResultRuns |-> [lo \in ResultRuns |->
        get_possession_effectiveness(preprocess_data(SeasonOf(1, hi, lo)))]]

\* two displayed values are the same number
SameValue(a, b) == a.n * b.d = b.n * a.d

\* the rule engine reports the Counter-Attack finding for a subject with this map
CounterAttackFor(eff) == Has(eff, {"better_with_possession"}) /\ ~eff.better_with_possession

\* C22: every rule decides from the rounded values the engines return and the finding
\* quotes, not from unrounded internals: two non-empty subjects whose displayed low- and
\* high-possession PPG are equal get the same Counter-Attack outcome.
C22_RulesReadDisplayed ==
    (op = "get_possession_tactical_insights" /\ CallTable # <<>>) =>
        LET subject == SubjectEff
            emitted == Len(FindingOf("Counter-Attack Style More Effective")) = 1
        IN  \A hi \in ResultRuns, lo \in ResultRuns :
                LET other == EffOfRuns[hi][lo]
                IN  (/\ other # NoMetrics
                     /\ SameValue(other.low_possession_ppg, subject.low_possession_ppg)
                     /\ SameValue(other.high_possession_ppg, subject.high_possession_ppg))
                        => (CounterAttackFor(other) <=> emitted)

C25_ComparisonExcludesSelected ==
    {"selected_team", "comparison_teams"} \subseteq DOMAIN session =>
        /\ session.selected_team \notin session.comparison_teams
        /\ Cardinality(session.comparison_teams) <= 3

\* --------------------------------------------------------------------- C26
\* C26: in the shot outcome breakdown of a non-empty collection every category count
\* (Goals, Saved, Blocked, Off Target, Woodwork) is non-negative and Goals.count +
\* Saved.count is the team's total of shots on target, also when the goals exceed it.
C26_ShotOutcomeCounts ==
    (op = "get_shot_outcome_breakdown" /\ CallTable # <<>>) =>
        /\ \A k \in DOMAIN result : result[k].count >= 0
        /\ result.Goals.count + result.Saved.count = Sum(CallTable, "ShotsOnTarget")

\* --------------------------------------------------------------------- C27
\* C27: in the standings each team's played count P is the number of records the team
\* has in the season asked for, and P = W + D + L, whatever the records' points.
C27_PlayedCount ==
    op = "calculate_league_position" =>
        \A i \in 1..Len(result) :
            /\ result[i].P = result[i].W + result[i].D + result[i].L
            /\ result[i].P = Len(get_team_data(SeasonRows(canon, arg.season), result[i].Team))

\* --------------------------------------------------------------------- C28
\* the number of letters c in the form string
LetterCount(form, c) == Cardinality({i \in 1..Len(form) : form[i] = c})

\* C28: in the result of get_form the numbers of W, D and L in form_string are the
\* reported wins, draws and losses, and wins + draws + losses is the string's length.
C28_FormCounts ==
    op = "get_form" =>
        /\ LetterCount(result.form_string, "W") = result.wins
        /\ LetterCount(result.form_string, "D") = result.draws
        /\ LetterCount(result.form_string, "L") = result.losses
        /\ result.wins + result.draws + result.losses = Len(result.form_string)

\* --------------------------------------------------------------------- C29
\* the tables holding the rows of df in every order
Reorderings(df) ==
    {[i \in 1..Len(df) |-> df[p[i]]] :
        p \in {q \in [1..Len(df) -> 1..Len(df)] : \A i, j \in 1..Len(df) : q[i] = q[j] => i = j}}

\* C29: teams level on points, goal difference and goals for are ordered by ascending
\* team name, so the same records give the same standings whatever the order of the
\* rows in the table.
C29_TiesByTeamName ==
    op = "calculate_league_position" =>
        /\ \A i \in 1..Len(result) : \A j \in i + 1..Len(result) :
              (/\ result[i].Points = result[j].Points
               /\ result[i].GD = result[j].GD
               /\ result[i].GF = result[j].GF) => result[i].Team < result[j].Team
        /\ \A other \in Reorderings(canon) :
              calculate_league_position(other, arg.season) = result

\* two teams level on every key, the second team's record first in the table
C29_Witness ==
    /\ op = "calculate_league_position"
    /\ Len(result) = 2
    /\ <<result[1].Points, result[1].GD, result[1].GF>>
          = <<result[2].Points, result[2].GD, result[2].GF>>
    /\ canon[1].Team = 2
    /\ result[1].Team = 1

\* --------------------------------------------------------------------- C30
\* C30: get_home_away_split partitions the team's records: home.matches + away.matches
\* is the number of records given and home.points + away.points the sum of their points,
\* whatever the records hold in Side.
C30_SplitPartitions ==
    op = "get_home_away_split" =>
        /\ result.home.matches + result.away.matches = Len(CallTable)
        /\ result.home.points + result.away.points = PointsFrom(CallTable, 1)

====
